---- MODULE Spec2Model ----
(***************************************************************************)
(* Typed request/response binding layer of mobot (src/lib/api/chat.rs and  *)
(* src/lib/api/message.rs): the serde wire mapping of the request and      *)
(* response structs, the request constructors and builders, and the API    *)
(* operations that post a request under a fixed method name.               *)
(***************************************************************************)
EXTENDS Integers, Sequences, FiniteSets, TLC

(***************************************************************************)
(* Bounds of the model.                                                    *)
(***************************************************************************)
\* integer identifiers are drawn from {123456789} \cup 1..MaxId
MaxId == 1
\* getChatAdministrators replies carry 0..MaxAdmins administrators
MaxAdmins == 1
\* tasks calling the API at the same time
NumCallers == 2

(***************************************************************************)
(* JSON values (serde_json::Value): one tagged record per JSON type.       *)
(***************************************************************************)
JNull == [t |-> "null"]
JBool(b) == [t |-> "bool", b |-> b]
JNum(n) == [t |-> "num", n |-> n]
JStr(s) == [t |-> "str", s |-> s]
JArr(a) == [t |-> "arr", a |-> a]
JObj(o) == [t |-> "obj", o |-> o]
\* the object with no keys
EmptyObj == <<>>

(***************************************************************************)
(* Rust values: i64 -> Int, String -> string, bool -> BOOLEAN, Option<T>   *)
(* -> None / Some(x), a unit enum -> the name of its variant, a struct ->  *)
(* a record of its fields, Vec<T> -> a sequence, Result -> Ok / Err.       *)
(***************************************************************************)
None == [some |-> FALSE]
Some(x) == [some |-> TRUE, v |-> x]
Ok(x) == [ok |-> TRUE, v |-> x]
\* kind: "missing_field" (what = the wire key), "unknown_variant" (what = the
\* raw token), "invalid_type" (what = the JSON type met), "transport"
Err(kind, what) == [ok |-> FALSE, kind |-> kind, what |-> what]

(***************************************************************************)
(* Field descriptors: what #[derive(Serialize, Deserialize)] sees of one   *)
(* field: its name, its wire key (serde(rename)), its type, whether it is  *)
(* an Option, whether it carries skip_serializing_if = "Option::is_none",  *)
(* and whether it is serde(flatten).                                       *)
(***************************************************************************)
Req(name, ty) ==
    [name |-> name, key |-> name, ty |-> ty, opt |-> FALSE, skip |-> FALSE, flat |-> FALSE]
Opt(name, ty) ==
    [name |-> name, key |-> name, ty |-> ty, opt |-> TRUE, skip |-> FALSE, flat |-> FALSE]
OptSkip(name, ty) ==
    [name |-> name, key |-> name, ty |-> ty, opt |-> TRUE, skip |-> TRUE, flat |-> FALSE]
Renamed(name, key, ty) ==
    [name |-> name, key |-> key, ty |-> ty, opt |-> FALSE, skip |-> FALSE, flat |-> FALSE]
Flatten(name, ty) ==
    [name |-> name, key |-> name, ty |-> ty, opt |-> FALSE, skip |-> FALSE, flat |-> TRUE]
FlattenOptSkip(name, ty) ==
    [name |-> name, key |-> name, ty |-> ty, opt |-> TRUE, skip |-> TRUE, flat |-> TRUE]

(***************************************************************************)
(* chat.rs: the structs and enums.                                         *)
(***************************************************************************)
\* Chat with id: Option<i64>
Chat_optional_id ==
    << Opt("id", "i64"),
       Renamed("chat_type", "type", "String"),
       Opt("title", "String"),
       Opt("username", "String"),
       Opt("first_name", "String"),
       Opt("last_name", "String"),
       Opt("all_members_are_administrators", "bool"),
       Opt("is_forum", "bool") >>

Chat ==
    << Req("id", "i64"),
       Renamed("chat_type", "type", "String"),
       Opt("title", "String"),
       Opt("username", "String"),
       Opt("first_name", "String"),
       Opt("last_name", "String"),
       Opt("all_members_are_administrators", "bool"),
       Opt("is_forum", "bool") >>

\* ChatAction with the rename of UploadVideoNote left out
ChatAction_unrenamed ==
    [ Typing          |-> "typing",
      UploadPhoto     |-> "upload_photo",
      RecordVideo     |-> "record_video",
      UploadVideo     |-> "upload_video",
      RecordAudio     |-> "record_audio",
      UploadAudio     |-> "upload_audio",
      UploadDocument  |-> "upload_document",
      FindLocation    |-> "find_location",
      RecordVideoNote |-> "record_video_note",
      UploadVideoNote |-> "UploadVideoNote" ]

\* variant -> wire token (serde(rename) of each variant)
ChatAction ==
    [ Typing          |-> "typing",
      UploadPhoto     |-> "upload_photo",
      RecordVideo     |-> "record_video",
      UploadVideo     |-> "upload_video",
      RecordAudio     |-> "record_audio",
      UploadAudio     |-> "upload_audio",
      UploadDocument  |-> "upload_document",
      FindLocation    |-> "find_location",
      RecordVideoNote |-> "record_video_note",
      UploadVideoNote |-> "upload_video_note" ]

SendChatActionRequest ==
    << Req("chat_id", "i64"),
       Opt("message_thread_id", "i64"),
       Req("action", "ChatAction") >>

ChatPermissions ==
    << OptSkip("can_send_messages", "bool"),
       OptSkip("can_send_audios", "bool"),
       OptSkip("can_send_documents", "bool"),
       OptSkip("can_send_photos", "bool"),
       OptSkip("can_send_videos", "bool"),
       OptSkip("can_send_video_notes", "bool"),
       OptSkip("can_send_voice_notes", "bool"),
       OptSkip("can_send_polls", "bool"),
       OptSkip("can_send_other_messages", "bool"),
       OptSkip("can_add_web_page_previews", "bool"),
       OptSkip("can_change_info", "bool"),
       OptSkip("can_invite_users", "bool"),
       OptSkip("can_pin_messages", "bool"),
       OptSkip("can_manage_topics", "bool") >>

SetChatPermissionRequest ==
    << Req("chat_id", "String"),
       Req("permissions", "ChatPermissions"),
       Opt("use_independent_chat_permissions", "bool") >>

RestrictChatMemberRequest ==
    << Req("chat_id", "String"),
       Req("user_id", "i64"),
       Req("permissions", "ChatPermissions"),
       OptSkip("use_independent_chat_permissions", "bool"),
       OptSkip("until_date", "i64") >>

GetChatAdministratorsRequest ==
    << Req("chat_id", "String") >>

ChatMemberAdministrator ==
    << Req("status", "String"),
       Req("user", "User"),
       Opt("can_be_edited", "bool"),
       Opt("is_anonymous", "bool"),
       Opt("can_manage_chat", "bool"),
       Opt("can_delete_messages", "bool"),
       Opt("can_manage_video_chats", "bool"),
       Opt("can_restrict_members", "bool"),
       Opt("can_promote_members", "bool"),
       Opt("can_change_info", "bool"),
       Opt("can_invite_users", "bool"),
       Opt("can_post_stories", "bool"),
       Opt("can_edit_stories", "bool"),
       Opt("can_delete_stories", "bool"),
       Opt("can_post_messages", "bool"),
       Opt("can_edit_messages", "bool"),
       Opt("can_pin_messages", "bool"),
       Opt("can_manage_topics", "bool"),
       Opt("custom_title", "String") >>

GetChatRequest ==
    << Req("chat_id", "String") >>

ChatFullInfo ==
    << Req("id", "i64"),
       Renamed("type_", "type", "String"),
       Opt("title", "String"),
       Opt("username", "String"),
       Opt("first_name", "String"),
       Opt("last_name", "String"),
       Opt("is_forum", "bool"),
       Opt("accent_color", "i64"),
       Opt("max_reaction_count", "i64"),
       Opt("active_usernames", "Vec<String>"),
       Opt("description", "String") >>

BanChatMemberRequest ==
    << Req("chat_id", "String"),
       Req("user_id", "i64"),
       OptSkip("until_date", "i64"),
       Opt("revoke_messages", "bool") >>

UnbanChatMemberRequest ==
    << Req("chat_id", "String"),
       Req("user_id", "i64"),
       OptSkip("only_if_banned", "bool") >>

(***************************************************************************)
(* message.rs: the structs and enums.                                      *)
(***************************************************************************)
ForumTopicCreated ==
    << Req("name", "String"),
       Req("icon_color", "i64"),
       OptSkip("icon_custom_emoji_id", "String") >>

Message ==
    << Req("message_id", "i64"),
       OptSkip("message_thread_id", "i64"),
       OptSkip("from", "User"),
       Req("date", "i64"),
       OptSkip("text", "String"),
       OptSkip("photo", "Vec<PhotoSize>"),
       OptSkip("document", "Document"),
       Req("chat", "Chat"),
       OptSkip("forward_from", "User"),
       OptSkip("forward_from_chat", "Chat"),
       OptSkip("forward_from_message_id", "i64"),
       OptSkip("forward_signature", "String"),
       OptSkip("forward_sender_name", "String"),
       OptSkip("forward_date", "i64"),
       OptSkip("reply_to_message", "Value"),
       OptSkip("sticker", "Sticker"),
       OptSkip("forum_topic_created", "ForumTopicCreated"),
       FlattenOptSkip("reply_markup", "ReplyMarkup") >>

\* ParseMode with the rename of Markdown repeated on Text
ParseMode_same_token ==
    [ MarkdownV2 |-> "MarkdownV2",
      Markdown   |-> "Markdown",
      HTML       |-> "HTML",
      Text       |-> "Markdown" ]

\* variant -> wire token (serde(rename) of each variant)
ParseMode ==
    [ MarkdownV2 |-> "MarkdownV2",
      Markdown   |-> "Markdown",
      HTML       |-> "HTML",
      Text       |-> "" ]

ReplyParameters ==
    << Req("message_id", "i64"),
       OptSkip("chat_id", "Value"),
       OptSkip("allow_sending_without_reply", "bool"),
       OptSkip("quote", "String"),
       OptSkip("quote_parse_mode", "String"),
       OptSkip("quote_entities", "Value"),
       OptSkip("quote_position", "i64") >>

SendMessageRequest ==
    << Req("chat_id", "i64"),
       Opt("message_thread_id", "i64"),
       Req("text", "String"),
       OptSkip("reply_parameters", "ReplyParameters"),
       OptSkip("parse_mode", "ParseMode"),
       OptSkip("reply_markup", "ReplyMarkup") >>

EditMessageBase ==
    << OptSkip("chat_id", "i64"),
       OptSkip("message_id", "i64"),
       OptSkip("inline_message_id", "String"),
       OptSkip("parse_mode", "ParseMode"),
       OptSkip("reply_markup", "String") >>

EditMessageTextRequest ==
    << Flatten("base", "EditMessageBase"),
       Req("text", "String") >>

\* EditMessageCaptionRequest with serde(flatten) left out
EditMessageCaptionRequest_nested ==
    << Req("base", "EditMessageBase"),
       Req("caption", "String") >>

EditMessageCaptionRequest ==
    << Flatten("base", "EditMessageBase"),
       Req("caption", "String") >>

EditMessageReplyMarkupRequest ==
    << Flatten("base", "EditMessageBase") >>

DeleteMessageRequest ==
    << Req("chat_id", "i64"),
       Req("message_id", "i64") >>

(***************************************************************************)
(* Types of the crate that chat.rs and message.rs import from sibling      *)
(* modules (user.rs, sticker.rs, reply_markup.rs, ...).  User, Sticker,    *)
(* Document and PhotoSize are kept opaque: a value of them is the JSON     *)
(* object it was decoded from.  Of ReplyMarkup two variants are modelled,  *)
(* each with the one key that tells it apart.                              *)
(***************************************************************************)
OpaqueTypes == {"User", "Sticker", "Document", "PhotoSize"}

ReplyMarkup ==
    [ ReplyKeyboardRemove  |-> [remove_keyboard |-> JBool(TRUE)],
      InlineKeyboardMarkup |-> [inline_keyboard |-> JArr(<<>>)] ]

\* serde_json::to_string(&reply_markup) of the two variants
ReplyMarkupText ==
    [ ReplyKeyboardRemove  |-> "{\"remove_keyboard\":true}",
      InlineKeyboardMarkup |-> "{\"inline_keyboard\":[]}" ]

\* serde_json::to_string(&reply_markup) as a Result: the text, or the
\* serialization error of a variant whose content cannot be rendered
\* (unsupported is the answer of ReplyMarkup's Serialize)
to_string(reply_markup, unsupported) ==
    IF unsupported THEN Err("serialization", reply_markup)
    ELSE Ok(ReplyMarkupText[reply_markup])

\* ReplyMarkup::reply_keyboard_remove()
reply_keyboard_remove == "ReplyKeyboardRemove"

ReplyMarkupFromJson(j) ==
    IF j.t # "obj" THEN Err("invalid_type", j.t)
    ELSE LET fits == {m \in DOMAIN ReplyMarkup :
                        \A k \in DOMAIN ReplyMarkup[m] :
                            k \in DOMAIN j.o /\ j.o[k] = ReplyMarkup[m][k]}
         IN  IF fits = {} THEN Err("invalid_type", "obj")
             ELSE Ok(CHOOSE m \in fits : TRUE)

(***************************************************************************)
(* The type tables the derives are generated from.                         *)
(***************************************************************************)
StructTypes ==
    { "Chat", "SendChatActionRequest", "ChatPermissions", "SetChatPermissionRequest",
      "RestrictChatMemberRequest", "GetChatAdministratorsRequest",
      "ChatMemberAdministrator", "GetChatRequest", "ChatFullInfo",
      "BanChatMemberRequest", "UnbanChatMemberRequest", "ForumTopicCreated",
      "Message", "ReplyParameters", "SendMessageRequest", "EditMessageBase",
      "EditMessageTextRequest", "EditMessageCaptionRequest",
      "EditMessageReplyMarkupRequest", "DeleteMessageRequest" }

Schema(ty) ==
    CASE ty = "Chat" -> Chat
      [] ty = "SendChatActionRequest" -> SendChatActionRequest
      [] ty = "ChatPermissions" -> ChatPermissions
      [] ty = "SetChatPermissionRequest" -> SetChatPermissionRequest
      [] ty = "RestrictChatMemberRequest" -> RestrictChatMemberRequest
      [] ty = "GetChatAdministratorsRequest" -> GetChatAdministratorsRequest
      [] ty = "ChatMemberAdministrator" -> ChatMemberAdministrator
      [] ty = "GetChatRequest" -> GetChatRequest
      [] ty = "ChatFullInfo" -> ChatFullInfo
      [] ty = "BanChatMemberRequest" -> BanChatMemberRequest
      [] ty = "UnbanChatMemberRequest" -> UnbanChatMemberRequest
      [] ty = "ForumTopicCreated" -> ForumTopicCreated
      [] ty = "Message" -> Message
      [] ty = "ReplyParameters" -> ReplyParameters
      [] ty = "SendMessageRequest" -> SendMessageRequest
      [] ty = "EditMessageBase" -> EditMessageBase
      [] ty = "EditMessageTextRequest" -> EditMessageTextRequest
      [] ty = "EditMessageCaptionRequest" -> EditMessageCaptionRequest
      [] ty = "EditMessageReplyMarkupRequest" -> EditMessageReplyMarkupRequest
      [] ty = "DeleteMessageRequest" -> DeleteMessageRequest

EnumTypes == {"ChatAction", "ParseMode"}

Tokens(ty) ==
    CASE ty = "ChatAction" -> ChatAction
      [] ty = "ParseMode" -> ParseMode

VecTypes == {"Vec<String>", "Vec<PhotoSize>", "Vec<ChatMemberAdministrator>"}

ElemType(ty) ==
    CASE ty = "Vec<String>" -> "String"
      [] ty = "Vec<PhotoSize>" -> "PhotoSize"
      [] ty = "Vec<ChatMemberAdministrator>" -> "ChatMemberAdministrator"

(***************************************************************************)
(* Serialize: the derived impl of a struct walks its fields in declared    *)
(* order; an absent Option is left out only under skip_serializing_if,     *)
(* otherwise it is written as null; a flattened field writes its own       *)
(* entries into the enclosing map.                                         *)
(***************************************************************************)
RECURSIVE ToJson(_, _)
RECURSIVE SerializeFields(_, _, _)

SerializeFields(schema, v, i) ==
    IF i > Len(schema) THEN EmptyObj
    ELSE LET f == schema[i]
             x == v[f.name]
             here ==
                 IF f.flat
                 THEN IF f.opt
                      THEN IF x.some THEN ToJson(f.ty, x.v).o ELSE EmptyObj
                      ELSE ToJson(f.ty, x).o
                 ELSE IF f.opt
                      THEN IF x.some THEN f.key :> ToJson(f.ty, x.v)
                           ELSE IF f.skip THEN EmptyObj
                           ELSE f.key :> JNull
                      ELSE f.key :> ToJson(f.ty, x)
         IN  here @@ SerializeFields(schema, v, i + 1)

ToJson(ty, v) ==
    CASE ty = "i64" -> JNum(v)
      [] ty = "String" -> JStr(v)
      [] ty = "bool" -> JBool(v)
      [] ty = "Value" -> v
      [] ty \in EnumTypes -> JStr(Tokens(ty)[v])
      [] ty \in StructTypes -> JObj(SerializeFields(Schema(ty), v, 1))
      [] ty \in VecTypes -> JArr([i \in 1..Len(v) |-> ToJson(ElemType(ty), v[i])])
      [] ty = "ReplyMarkup" -> JObj(ReplyMarkup[v])
      [] ty \in OpaqueTypes -> v

(***************************************************************************)
(* Deserialize: unknown keys are ignored; a missing key gives None for an  *)
(* Option field and the error `missing field` otherwise; null gives None   *)
(* for an Option field; a flattened field is decoded from the entries of   *)
(* the enclosing map, and a flattened Option that fails to decode is None. *)
(***************************************************************************)
RECURSIVE FromJson(_, _)
RECURSIVE DeserializeFields(_, _)

Min(S) == CHOOSE m \in S : \A n \in S : m <= n

FieldResult(f, o) ==
    IF f.flat
    THEN LET r == FromJson(f.ty, JObj(o))
         IN  IF f.opt THEN (IF r.ok THEN Ok(Some(r.v)) ELSE Ok(None)) ELSE r
    ELSE IF f.key \in DOMAIN o
         THEN IF f.opt
              THEN IF o[f.key].t = "null" THEN Ok(None)
                   ELSE LET r == FromJson(f.ty, o[f.key])
                        IN  IF r.ok THEN Ok(Some(r.v)) ELSE r
              ELSE FromJson(f.ty, o[f.key])
         ELSE IF f.opt THEN Ok(None) ELSE Err("missing_field", f.key)

\* The first error met is returned: the values of the keys present, then the
\* missing keys, then the flattened fields (decoded last, from the buffer).
DeserializeFields(schema, o) ==
    LET idx == 1..Len(schema)
        res == [i \in idx |-> FieldResult(schema[i], o)]
        bad == {i \in idx : ~res[i].ok}
        present == {i \in bad : ~schema[i].flat /\ schema[i].key \in DOMAIN o}
        missing == {i \in bad : ~schema[i].flat /\ schema[i].key \notin DOMAIN o}
    IN  IF bad = {}
        THEN Ok([n \in {schema[i].name : i \in idx} |->
                    res[CHOOSE i \in idx : schema[i].name = n].v])
        ELSE IF present # {} THEN res[Min(present)]
        ELSE IF missing # {} THEN res[Min(missing)]
        ELSE res[Min(bad)]

\* a unit variant is read from its token, or from {token: null}
EnumFromJson(ty, j) ==
    LET tok == Tokens(ty)
        Variant(s) == IF \E x \in DOMAIN tok : tok[x] = s
                      THEN Ok(CHOOSE x \in DOMAIN tok : tok[x] = s)
                      ELSE Err("unknown_variant", s)
    IN  IF j.t = "str" THEN Variant(j.s)
        ELSE IF j.t = "obj" /\ Cardinality(DOMAIN j.o) = 1
             THEN LET k == CHOOSE k \in DOMAIN j.o : TRUE
                  IN  IF ~Variant(k).ok THEN Variant(k)
                      ELSE IF j.o[k].t = "null" THEN Variant(k)
                      ELSE Err("invalid_type", j.o[k].t)
        ELSE Err("invalid_type", j.t)

VecFromJson(ty, j) ==
    IF j.t # "arr" THEN Err("invalid_type", j.t)
    ELSE LET res == [i \in 1..Len(j.a) |-> FromJson(ElemType(ty), j.a[i])]
             bad == {i \in 1..Len(j.a) : ~res[i].ok}
         IN  IF bad # {} THEN res[Min(bad)]
             ELSE Ok([i \in 1..Len(j.a) |-> res[i].v])

FromJson(ty, j) ==
    CASE ty = "i64" -> IF j.t = "num" THEN Ok(j.n) ELSE Err("invalid_type", j.t)
      [] ty = "String" -> IF j.t = "str" THEN Ok(j.s) ELSE Err("invalid_type", j.t)
      [] ty = "bool" -> IF j.t = "bool" THEN Ok(j.b) ELSE Err("invalid_type", j.t)
      [] ty = "Value" -> Ok(j)
      [] ty \in EnumTypes -> EnumFromJson(ty, j)
      [] ty \in StructTypes ->
            IF j.t = "obj" THEN DeserializeFields(Schema(ty), j.o)
            ELSE Err("invalid_type", j.t)
      [] ty \in VecTypes -> VecFromJson(ty, j)
      [] ty = "ReplyMarkup" -> ReplyMarkupFromJson(j)
      [] ty \in OpaqueTypes -> IF j.t = "obj" THEN Ok(j) ELSE Err("invalid_type", j.t)


(***************************************************************************)
(* Input domains.                                                          *)
(***************************************************************************)
IdValues == {123456789} \cup (1..MaxId)
TextValues == {"Hello!", "Bye"}
ChatNames == {"@channelusername", "123456789"}
InlineIds == {"inline-1"}
OptBool == {None, Some(TRUE), Some(FALSE)}
OptId == {None} \cup {Some(i) : i \in IdValues}

PermissionFields == {ChatPermissions[i].name : i \in 1..Len(ChatPermissions)}
PermissionValues ==
    { [n \in PermissionFields |-> None],
      [n \in PermissionFields |-> Some(TRUE)],
      [n \in PermissionFields |-> IF n = "can_send_messages" THEN Some(FALSE) ELSE None] }

ReplyParametersValues ==
    { [message_id |-> 1, chat_id |-> None, allow_sending_without_reply |-> None,
       quote |-> None, quote_parse_mode |-> None, quote_entities |-> None,
       quote_position |-> None],
      [message_id |-> 1, chat_id |-> Some(JNum(123456789)),
       allow_sending_without_reply |-> None, quote |-> None,
       quote_parse_mode |-> None, quote_entities |-> None, quote_position |-> None],
      [message_id |-> 1, chat_id |-> Some(JStr("@channelusername")),
       allow_sending_without_reply |-> Some(TRUE), quote |-> Some("Hello!"),
       quote_parse_mode |-> Some("HTML"), quote_entities |-> Some(JArr(<<>>)),
       quote_position |-> Some(1)] }

(***************************************************************************)
(* Constructors and builders.                                              *)
(***************************************************************************)
SendChatActionRequest_new(chat_id, action) ==
    [chat_id |-> chat_id, action |-> action, message_thread_id |-> None]

SetChatPermissionRequest_new(chat_id, permissions, use_independent_chat_permissions) ==
    [chat_id |-> chat_id, permissions |-> permissions,
     use_independent_chat_permissions |-> use_independent_chat_permissions]

RestrictChatMemberRequest_new(chat_id, user_id, permissions, use_independent_chat_permissions, until_date) ==
    [chat_id |-> chat_id, user_id |-> user_id, permissions |-> permissions,
     use_independent_chat_permissions |-> use_independent_chat_permissions,
     until_date |-> until_date]

GetChatAdministratorsRequest_new(chat_id) == [chat_id |-> chat_id]

GetChatRequest_new(chat_id) == [chat_id |-> chat_id]

BanChatMemberRequest_new(chat_id, user_id, until_date, revoke_messages) ==
    [chat_id |-> chat_id, user_id |-> user_id, until_date |-> until_date,
     revoke_messages |-> revoke_messages]

UnbanChatMemberRequest_new(chat_id, user_id, only_if_banned) ==
    [chat_id |-> chat_id, user_id |-> user_id, only_if_banned |-> only_if_banned]

SendMessageRequest_new(chat_id, text) ==
    [chat_id |-> chat_id, message_thread_id |-> None, text |-> text,
     reply_parameters |-> None, parse_mode |-> None, reply_markup |-> None]

SendMessageRequest_with_message_thread_id(self, message_thread_id) ==
    [self EXCEPT !.message_thread_id = Some(message_thread_id)]

SendMessageRequest_with_reply_markup(self, reply_markup) ==
    [self EXCEPT !.reply_markup = Some(reply_markup)]

SendMessageRequest_with_parse_mode(self, parse_mode) ==
    [self EXCEPT !.parse_mode = Some(parse_mode)]

EditMessageBase_new ==
    [chat_id |-> None, message_id |-> None, inline_message_id |-> None,
     parse_mode |-> None, reply_markup |-> None]

EditMessageBase_with_chat_id(self, chat_id) ==
    [self EXCEPT !.chat_id = Some(chat_id)]

EditMessageBase_with_message_id(self, message_id) ==
    [self EXCEPT !.message_id = Some(message_id)]

EditMessageBase_with_parse_mode(self, parse_mode) ==
    [self EXCEPT !.parse_mode = Some(parse_mode)]

\* what is left of a call whose unwrap() met an Err: no value is returned
Panicked == [panicked |-> TRUE]

EditMessageBase_with_reply_markup(self, reply_markup, unsupported) ==
    LET text == to_string(reply_markup, unsupported)
    IN  IF text.ok THEN [self EXCEPT !.reply_markup = Some(text.v)]
        ELSE Panicked

EditMessageTextRequest_new(text) ==
    [base |-> EditMessageBase_new, text |-> text]

EditMessageTextRequest_with_chat_id(self, chat_id) ==
    [self EXCEPT !.base.chat_id = Some(chat_id)]

\* with_message_id that rebuilds the base and loses its chat_id
EditMessageTextRequest_with_message_id_resets(self, message_id) ==
    [self EXCEPT !.base.message_id = Some(message_id), !.base.chat_id = None]

EditMessageTextRequest_with_message_id(self, message_id) ==
    [self EXCEPT !.base.message_id = Some(message_id)]

EditMessageCaptionRequest_new(caption) ==
    [base |-> EditMessageBase_new, caption |-> caption]

EditMessageCaptionRequest_with_chat_id(self, chat_id) ==
    [self EXCEPT !.base.chat_id = Some(chat_id)]

EditMessageReplyMarkupRequest_new(reply_markup, unsupported) ==
    LET base == EditMessageBase_with_reply_markup(EditMessageBase_new, reply_markup,
                                                  unsupported)
    IN  IF base = Panicked THEN Panicked ELSE [base |-> base]

EditMessageReplyMarkupRequest_with_chat_id(self, chat_id) ==
    [self EXCEPT !.base.chat_id = Some(chat_id)]

EditMessageReplyMarkupRequest_with_message_id(self, message_id) ==
    [self EXCEPT !.base.message_id = Some(message_id)]

DeleteMessageRequest_new(chat_id, message_id) ==
    [chat_id |-> chat_id, message_id |-> message_id]

(***************************************************************************)
(* The transport: Client::post(method, req) serializes the request, posts  *)
(* it under the method name and, when the transport answers, decodes the   *)
(* answer as the response type; when the transport fails, its error comes  *)
(* back with the method name attached.  posted is the sequence of posts    *)
(* made, outcome is the transport's answer:                                *)
(* [ok |-> TRUE, body |-> json] or [ok |-> FALSE, error |-> e].            *)
(***************************************************************************)
post(method, reqTy, respTy, r, outcome) ==
    [ posted |-> << [method |-> method, body |-> ToJson(reqTy, r)] >>,
      result |-> [ty |-> respTy,
                  val |-> IF outcome.ok THEN FromJson(respTy, outcome.body)
                          ELSE [ok |-> FALSE, kind |-> "transport",
                                what |-> outcome.error, method |-> method]] ]

(***************************************************************************)
(* impl API: each operation is one call of post.                           *)
(***************************************************************************)
\* send_message that maps the error of post to one of its own
send_message_masked(r, outcome) ==
    LET c == post("sendMessage", "SendMessageRequest", "Message", r, outcome)
    IN  IF c.result.val.ok THEN c
        ELSE [c EXCEPT !.result.val = Err("transport", "send_message failed")]

send_message(r, outcome) ==
    post("sendMessage", "SendMessageRequest", "Message", r, outcome)

edit_message_text(r, outcome) ==
    post("editMessageText", "EditMessageTextRequest", "Message", r, outcome)

edit_message_caption(r, outcome) ==
    post("editMessageCaption", "EditMessageCaptionRequest", "Message", r, outcome)

edit_message_reply_markup(r, outcome) ==
    post("editMessageReplyMarkup", "EditMessageReplyMarkupRequest", "Message", r, outcome)

\* delete_message that posts again when the first post failed
delete_message_retry(r, outcome) ==
    LET c == post("deleteMessage", "DeleteMessageRequest", "bool", r, outcome)
    IN  IF c.result.val.ok THEN c ELSE [c EXCEPT !.posted = c.posted \o c.posted]

delete_message(r, outcome) ==
    post("deleteMessage", "DeleteMessageRequest", "bool", r, outcome)

\* remove_reply_keyboard that discards the caller's text
remove_reply_keyboard_drops_text(chat_id, text, outcome) ==
    send_message(
        SendMessageRequest_with_reply_markup(SendMessageRequest_new(chat_id, ""),
                                             reply_keyboard_remove),
        outcome)

remove_reply_keyboard(chat_id, text, outcome) ==
    send_message(
        SendMessageRequest_with_reply_markup(SendMessageRequest_new(chat_id, text),
                                             reply_keyboard_remove),
        outcome)

send_chat_action(r, outcome) ==
    post("sendChatAction", "SendChatActionRequest", "bool", r, outcome)

set_chat_permissions(r, outcome) ==
    post("setChatPermissions", "SetChatPermissionRequest", "bool", r, outcome)

restrict_chat_member(r, outcome) ==
    post("restrictChatMember", "RestrictChatMemberRequest", "bool", r, outcome)

get_chat_administrators(r, outcome) ==
    post("getChatAdministrators", "GetChatAdministratorsRequest",
         "Vec<ChatMemberAdministrator>", r, outcome)

get_chat(r, outcome) ==
    post("getChat", "GetChatRequest", "ChatFullInfo", r, outcome)

unban_chat_member(r, outcome) ==
    post("unbanChatMember", "UnbanChatMemberRequest", "bool", r, outcome)

\* ban_chat_member posting under the method name of unban_chat_member
ban_chat_member_as_unban(r, outcome) ==
    post("unbanChatMember", "BanChatMemberRequest", "bool", r, outcome)

ban_chat_member(r, outcome) ==
    post("banChatMember", "BanChatMemberRequest", "bool", r, outcome)


(***************************************************************************)
(* JSON documents met on the wire.  A document is a serialized request or  *)
(* a service answer, possibly differing from a well-formed one in one      *)
(* place: a key dropped, a value replaced, an unknown key added (at the    *)
(* top level or one level down).                                           *)
(***************************************************************************)
Atoms ==
    { JNull, JBool(TRUE), JNum(5), JStr("Typing"), JStr("typing"), JStr("html"),
      JStr("HTML"), JStr("@channelusername"), JObj(EmptyObj), JArr(<<>>) }

Without(o, k) == [x \in DOMAIN o \ {k} |-> o[x]]
With(o, k, j) == (k :> j) @@ o

Tamper1(o) ==
    {o} \cup {Without(o, k) : k \in DOMAIN o}
        \cup {With(o, k, a) : k \in DOMAIN o, a \in Atoms}
        \cup {With(o, "unknown_key", JNum(1))}

Tamper(j) ==
    {JObj(o) : o \in Tamper1(j.o)}
        \cup UNION { {JObj(With(j.o, k, JObj(o2))) : o2 \in Tamper1(j.o[k].o)} :
                     k \in {x \in DOMAIN j.o : j.o[x].t = "obj"} }

UserJson == [id |-> JNum(1), is_bot |-> JBool(FALSE), first_name |-> JStr("Ada")]

ChatJsonMin == [id |-> JNum(123456789), type |-> JStr("private")]

ChatJsonFull ==
    [id |-> JNum(123456789), type |-> JStr("supergroup"), title |-> JStr("Hello!"),
     username |-> JStr("channelusername"), first_name |-> JStr("Ada"),
     last_name |-> JStr("L"), all_members_are_administrators |-> JBool(FALSE),
     is_forum |-> JBool(TRUE)]

MessageJsonMin ==
    [message_id |-> JNum(1), date |-> JNum(1700000000), chat |-> JObj(ChatJsonMin)]

MessageJsonFull ==
    [message_id |-> JNum(1), message_thread_id |-> JNum(5), from |-> JObj(UserJson),
     date |-> JNum(1700000000), text |-> JStr("Hello!"), chat |-> JObj(ChatJsonFull),
     forum_topic_created |-> JObj([name |-> JStr("t"), icon_color |-> JNum(7)]),
     remove_keyboard |-> JBool(TRUE)]

AdminJsonMin == [status |-> JStr("administrator"), user |-> JObj(UserJson)]

AdminJsonFull ==
    [status |-> JStr("administrator"), user |-> JObj(UserJson),
     can_be_edited |-> JBool(FALSE), is_anonymous |-> JBool(FALSE),
     can_manage_chat |-> JBool(TRUE), custom_title |-> JStr("boss")]

ChatFullInfoJsonMin == [id |-> JNum(123456789), type |-> JStr("private")]

ChatFullInfoJsonFull ==
    [id |-> JNum(123456789), type |-> JStr("channel"), title |-> JStr("Hello!"),
     username |-> JStr("channelusername"), first_name |-> JStr("Ada"),
     last_name |-> JStr("L"), is_forum |-> JBool(FALSE), accent_color |-> JNum(5),
     max_reaction_count |-> JNum(11),
     active_usernames |-> JArr(<<JStr("channelusername")>>),
     description |-> JStr("Bye")]

MessageReplies ==
    { JObj(MessageJsonMin), JObj(MessageJsonFull),
      JObj(Without(MessageJsonMin, "message_id")),
      JObj(Without(MessageJsonMin, "date")),
      JObj(Without(MessageJsonMin, "chat")),
      JObj(With(MessageJsonMin, "chat", JObj(Without(ChatJsonMin, "id")))),
      JObj(With(MessageJsonMin, "chat", JObj(Without(ChatJsonMin, "type")))),
      JObj(With(MessageJsonMin, "text", JNum(5))),
      JObj(With(MessageJsonMin, "text", JNull)),
      JBool(TRUE) }

BoolReplies == {JBool(TRUE), JBool(FALSE), JStr("true"), JNull}

AdminSamples ==
    { JObj(AdminJsonMin), JObj(AdminJsonFull),
      JObj(With(AdminJsonMin, "status", JStr("creator"))),
      JObj(With(AdminJsonMin, "status", JStr("Administrator"))),
      JObj(Without(AdminJsonMin, "status")),
      JObj(Without(AdminJsonMin, "user")),
      JObj(With(AdminJsonMin, "user", JStr("Ada"))),
      JObj(With(AdminJsonFull, "custom_title", JNull)) }

AdminReplies ==
    {JObj(AdminJsonMin)} \cup
    UNION { {JArr(a) : a \in [1..n -> AdminSamples]} : n \in 0..MaxAdmins }

ChatFullInfoReplies ==
    Tamper(JObj(ChatFullInfoJsonMin)) \cup Tamper(JObj(ChatFullInfoJsonFull))

TransportErrors == {"timeout", "http 502"}

Outcomes(bodies) ==
    {[ok |-> TRUE, body |-> b] : b \in bodies}
        \cup {[ok |-> FALSE, error |-> e] : e \in TransportErrors}

RequestTypes ==
    { "SendMessageRequest", "EditMessageTextRequest", "EditMessageCaptionRequest",
      "EditMessageReplyMarkupRequest", "DeleteMessageRequest",
      "SendChatActionRequest", "SetChatPermissionRequest",
      "RestrictChatMemberRequest", "GetChatAdministratorsRequest",
      "GetChatRequest", "BanChatMemberRequest", "UnbanChatMemberRequest" }

EditTypes ==
    { "EditMessageTextRequest", "EditMessageCaptionRequest",
      "EditMessageReplyMarkupRequest" }

ResponseTypes == {"Chat", "ChatFullInfo", "Message", "ChatMemberAdministrator"}

FullPermissions == [n \in PermissionFields |-> Some(TRUE)]
NoPermissions == [n \in PermissionFields |-> None]

FullBase ==
    [chat_id |-> Some(123456789), message_id |-> Some(1),
     inline_message_id |-> Some("inline-1"), parse_mode |-> Some("HTML"),
     reply_markup |-> Some(ReplyMarkupText["InlineKeyboardMarkup"])]

\* per request type: a value with the required fields only, and one with
\* every optional field present
SampleRequests(ty) ==
    CASE ty = "SendMessageRequest" ->
            { SendMessageRequest_new(123456789, "Hello!"),
              [chat_id |-> 123456789, message_thread_id |-> Some(1), text |-> "Hello!",
               reply_parameters |->
                   Some([message_id |-> 1, chat_id |-> Some(JStr("@channelusername")),
                         allow_sending_without_reply |-> Some(TRUE),
                         quote |-> Some("Hello!"), quote_parse_mode |-> Some("HTML"),
                         quote_entities |-> Some(JArr(<<>>)),
                         quote_position |-> Some(1)]),
               parse_mode |-> Some("MarkdownV2"),
               reply_markup |-> Some("ReplyKeyboardRemove")] }
      [] ty = "EditMessageTextRequest" ->
            { EditMessageTextRequest_new("Hello!"), [base |-> FullBase, text |-> "Hello!"] }
      [] ty = "EditMessageCaptionRequest" ->
            { EditMessageCaptionRequest_new("Hello!"),
              [base |-> FullBase, caption |-> "Hello!"] }
      [] ty = "EditMessageReplyMarkupRequest" ->
            { EditMessageReplyMarkupRequest_new("ReplyKeyboardRemove", FALSE),
              [base |-> FullBase] }
      [] ty = "DeleteMessageRequest" -> { DeleteMessageRequest_new(123456789, 1) }
      [] ty = "SendChatActionRequest" ->
            { SendChatActionRequest_new(123456789, "UploadVideoNote"),
              [chat_id |-> 123456789, message_thread_id |-> Some(1),
               action |-> "Typing"] }
      [] ty = "SetChatPermissionRequest" ->
            { SetChatPermissionRequest_new("@channelusername", NoPermissions, None),
              SetChatPermissionRequest_new("@channelusername", FullPermissions,
                                           Some(TRUE)) }
      [] ty = "RestrictChatMemberRequest" ->
            { RestrictChatMemberRequest_new("@channelusername", 1, NoPermissions,
                                            None, None),
              RestrictChatMemberRequest_new("@channelusername", 1, FullPermissions,
                                            Some(TRUE), Some(1)) }
      [] ty = "GetChatAdministratorsRequest" ->
            { GetChatAdministratorsRequest_new("@channelusername") }
      [] ty = "GetChatRequest" -> { GetChatRequest_new("@channelusername") }
      [] ty = "BanChatMemberRequest" ->
            { BanChatMemberRequest_new("@channelusername", 1, None, None),
              BanChatMemberRequest_new("@channelusername", 1, Some(1), Some(TRUE)) }
      [] ty = "UnbanChatMemberRequest" ->
            { UnbanChatMemberRequest_new("@channelusername", 1, None),
              UnbanChatMemberRequest_new("@channelusername", 1, Some(FALSE)) }

WireSamples(ty) ==
    CASE ty \in RequestTypes -> UNION {Tamper(ToJson(ty, v)) : v \in SampleRequests(ty)}
      [] ty = "Chat" -> Tamper(JObj(ChatJsonMin)) \cup Tamper(JObj(ChatJsonFull))
      [] ty = "ChatFullInfo" -> ChatFullInfoReplies
      [] ty = "Message" -> Tamper(JObj(MessageJsonMin)) \cup Tamper(JObj(MessageJsonFull))
      [] ty = "ChatMemberAdministrator" ->
            Tamper(JObj(AdminJsonMin)) \cup Tamper(JObj(AdminJsonFull)) \cup AdminSamples

(***************************************************************************)
(* State.                                                                  *)
(*   pc     where the caller stands: "idle", "built" (holds a request),    *)
(*          "serialized", "decoded", "done" (an API operation returned),   *)
(*          "panicked" (a constructor or builder did not return)           *)
(*   kind   the type of the value in req / of the document in wire         *)
(*   req    the request value the caller owns                              *)
(*   wire   the JSON document last serialized or received                  *)
(*   back   the Result of decoding wire as kind                            *)
(*   op     the API operation that ran                                     *)
(*   posts  what the operation posted to the transport                     *)
(*   reply  what the transport answered                                    *)
(*   result what the operation returned                                    *)
(*   given  how req was made: the value new(...) returned and, per field,  *)
(*          the argument of the last builder call or assignment            *)
(*   api    the API value every operation borrows as &self                *)
(*   calls  per concurrent caller: where it stands ("idle", "calling",     *)
(*          "returned"), the operation, the request it owns (req) and a    *)
(*          copy taken when the call began (arg), what was posted, the     *)
(*          transport's answer and the result returned                     *)
(***************************************************************************)
VARIABLES pc, kind, req, wire, back, op, posts, reply, result, given, api, calls

vars == <<pc, kind, req, wire, back, op, posts, reply, result, given, api, calls>>

NoCall ==
    [pc |-> "idle", op |-> "none", req |-> None, arg |-> None, posted |-> <<>>,
     reply |-> None, result |-> None]

NoJson == [t |-> "none"]

\* a value straight from new(...): no builder called, no field assigned
NothingGiven ==
    [ new  |-> None,
      last |-> [f \in { "chat_id", "message_id", "inline_message_id", "parse_mode",
                        "reply_markup", "message_thread_id", "reply_parameters" }
                  |-> None] ]

Init ==
    /\ pc = "idle"
    /\ kind = "none"
    /\ req = None
    /\ wire = NoJson
    /\ back = None
    /\ op = "none"
    /\ posts = <<>>
    /\ reply = None
    /\ result = None
    /\ given = NothingGiven
    /\ api = [client |-> "Client"]
    /\ calls = [c \in 1..NumCallers |-> NoCall]

Build(ty, v) ==
    /\ pc = "idle"
    /\ pc' = "built"
    /\ kind' = ty
    /\ req' = v
    /\ given' = [NothingGiven EXCEPT !.new = v]
    /\ UNCHANGED <<wire, back, op, posts, reply, result, api, calls>>

\* v is what the builder of field returned for arg
Rebuild(ty, field, arg, v) ==
    /\ pc = "built"
    /\ kind = ty
    /\ req' = v
    /\ given' = [given EXCEPT !.last[field] = Some(arg)]
    /\ UNCHANGED <<pc, kind, wire, back, op, posts, reply, result, api, calls>>

\* a constructor or builder panics: the value it owned is gone
Panic ==
    /\ pc \in {"idle", "built"}
    /\ pc' = "panicked"
    /\ req' = None
    /\ UNCHANGED <<kind, wire, back, op, posts, reply, result, given, api, calls>>

NewSendMessageRequest ==
    \E c \in IdValues, t \in TextValues :
        Build("SendMessageRequest", SendMessageRequest_new(c, t))

WithMessageThreadId ==
    \E i \in IdValues :
        Rebuild("SendMessageRequest", "message_thread_id", i,
                SendMessageRequest_with_message_thread_id(req, i))

WithReplyMarkup ==
    \E m \in DOMAIN ReplyMarkup :
        Rebuild("SendMessageRequest", "reply_markup", m,
                SendMessageRequest_with_reply_markup(req, m))

WithParseMode ==
    \E m \in DOMAIN ParseMode :
        Rebuild("SendMessageRequest", "parse_mode", m,
                SendMessageRequest_with_parse_mode(req, m))

\* pub field reply_parameters, set by the caller
SetReplyParameters ==
    \E p \in ReplyParametersValues :
        Rebuild("SendMessageRequest", "reply_parameters", p,
                [req EXCEPT !.reply_parameters = Some(p)])

NewEditMessageTextRequest ==
    \E t \in TextValues : Build("EditMessageTextRequest", EditMessageTextRequest_new(t))

NewEditMessageCaptionRequest ==
    \E t \in TextValues :
        Build("EditMessageCaptionRequest", EditMessageCaptionRequest_new(t))

NewEditMessageReplyMarkupRequest ==
    \E m \in DOMAIN ReplyMarkup, unsupported \in BOOLEAN :
        LET v == EditMessageReplyMarkupRequest_new(m, unsupported)
        IN  IF v = Panicked THEN pc = "idle" /\ Panic
            ELSE Build("EditMessageReplyMarkupRequest", v)

EditTextWithChatId ==
    \E i \in IdValues :
        Rebuild("EditMessageTextRequest", "chat_id", i,
                EditMessageTextRequest_with_chat_id(req, i))

EditTextWithMessageId ==
    \E i \in IdValues :
        Rebuild("EditMessageTextRequest", "message_id", i,
                EditMessageTextRequest_with_message_id(req, i))

EditCaptionWithChatId ==
    \E i \in IdValues :
        Rebuild("EditMessageCaptionRequest", "chat_id", i,
                EditMessageCaptionRequest_with_chat_id(req, i))

EditMarkupWithChatId ==
    \E i \in IdValues :
        Rebuild("EditMessageReplyMarkupRequest", "chat_id", i,
                EditMessageReplyMarkupRequest_with_chat_id(req, i))

EditMarkupWithMessageId ==
    \E i \in IdValues :
        Rebuild("EditMessageReplyMarkupRequest", "message_id", i,
                EditMessageReplyMarkupRequest_with_message_id(req, i))

\* the builders of EditMessageBase, applied to the pub field base
BaseWithChatId ==
    \E ty \in EditTypes, i \in IdValues :
        Rebuild(ty, "chat_id", i,
                [req EXCEPT !.base = EditMessageBase_with_chat_id(@, i)])

BaseWithMessageId ==
    \E ty \in EditTypes, i \in IdValues :
        Rebuild(ty, "message_id", i,
                [req EXCEPT !.base = EditMessageBase_with_message_id(@, i)])

BaseWithParseMode ==
    \E ty \in EditTypes, m \in DOMAIN ParseMode :
        Rebuild(ty, "parse_mode", m,
                [req EXCEPT !.base = EditMessageBase_with_parse_mode(@, m)])

BaseWithReplyMarkup ==
    \E ty \in EditTypes, m \in DOMAIN ReplyMarkup, unsupported \in BOOLEAN :
        /\ pc = "built"
        /\ kind = ty
        /\ LET base == EditMessageBase_with_reply_markup(req.base, m, unsupported)
           IN  IF base = Panicked THEN Panic
               ELSE Rebuild(ty, "reply_markup", m, [req EXCEPT !.base = base])

\* pub field inline_message_id, set by the caller
SetInlineMessageId ==
    \E ty \in EditTypes, s \in InlineIds :
        Rebuild(ty, "inline_message_id", s,
                [req EXCEPT !.base.inline_message_id = Some(s)])

NewDeleteMessageRequest ==
    \E c \in IdValues, m \in IdValues :
        Build("DeleteMessageRequest", DeleteMessageRequest_new(c, m))

NewSendChatActionRequest ==
    \E c \in IdValues, a \in DOMAIN ChatAction :
        Build("SendChatActionRequest", SendChatActionRequest_new(c, a))

\* pub field message_thread_id, set by the caller
SetMessageThreadId ==
    \E i \in IdValues :
        Rebuild("SendChatActionRequest", "message_thread_id", i,
                [req EXCEPT !.message_thread_id = Some(i)])

NewSetChatPermissionRequest ==
    \E c \in ChatNames, p \in PermissionValues, u \in OptBool :
        Build("SetChatPermissionRequest", SetChatPermissionRequest_new(c, p, u))

NewRestrictChatMemberRequest ==
    \E c \in ChatNames, i \in IdValues, p \in PermissionValues, u \in OptBool,
       d \in OptId :
        Build("RestrictChatMemberRequest", RestrictChatMemberRequest_new(c, i, p, u, d))

NewGetChatAdministratorsRequest ==
    \E c \in ChatNames :
        Build("GetChatAdministratorsRequest", GetChatAdministratorsRequest_new(c))

NewGetChatRequest ==
    \E c \in ChatNames : Build("GetChatRequest", GetChatRequest_new(c))

NewBanChatMemberRequest ==
    \E c \in ChatNames, i \in IdValues, d \in OptId, r \in OptBool :
        Build("BanChatMemberRequest", BanChatMemberRequest_new(c, i, d, r))

NewUnbanChatMemberRequest ==
    \E c \in ChatNames, i \in IdValues, o \in OptBool :
        Build("UnbanChatMemberRequest", UnbanChatMemberRequest_new(c, i, o))

(***************************************************************************)
(* The derived Serialize / Deserialize impls, used directly.               *)
(***************************************************************************)
\* serde_json::to_value(&req)
to_value ==
    /\ pc = "built"
    /\ pc' = "serialized"
    /\ wire' = ToJson(kind, req)
    /\ UNCHANGED <<kind, req, back, op, posts, reply, result, given, api, calls>>

\* serde_json::from_value::<kind>(wire) of what to_value wrote
from_value ==
    /\ pc = "serialized"
    /\ pc' = "decoded"
    /\ back' = FromJson(kind, wire)
    /\ UNCHANGED <<kind, req, wire, op, posts, reply, result, given, api, calls>>

\* serde_json::from_value::<ty>(j) of a document received
from_wire ==
    /\ pc = "idle"
    /\ \E ty \in RequestTypes \cup ResponseTypes :
         \E j \in WireSamples(ty) :
            /\ kind' = ty
            /\ wire' = j
            /\ back' = FromJson(ty, j)
    /\ pc' = "decoded"
    /\ UNCHANGED <<req, op, posts, reply, result, given, api, calls>>

(***************************************************************************)
(* The API operations, each with the transport's answer as its input.      *)
(***************************************************************************)
Return(o, c, outcome) ==
    /\ pc' = "done"
    /\ op' = o
    /\ posts' = posts \o c.posted
    /\ reply' = outcome
    /\ result' = c.result
    /\ UNCHANGED <<wire, back, given, api, calls>>

Call(o, ty, c, outcome) ==
    /\ pc = "built"
    /\ kind = ty
    /\ Return(o, c, outcome)
    /\ UNCHANGED <<kind, req>>

CallSendMessage ==
    \E outcome \in Outcomes(MessageReplies) :
        Call("send_message", "SendMessageRequest", send_message(req, outcome), outcome)

CallEditMessageText ==
    \E outcome \in Outcomes(MessageReplies) :
        Call("edit_message_text", "EditMessageTextRequest",
             edit_message_text(req, outcome), outcome)

CallEditMessageCaption ==
    \E outcome \in Outcomes(MessageReplies) :
        Call("edit_message_caption", "EditMessageCaptionRequest",
             edit_message_caption(req, outcome), outcome)

CallEditMessageReplyMarkup ==
    \E outcome \in Outcomes(MessageReplies) :
        Call("edit_message_reply_markup", "EditMessageReplyMarkupRequest",
             edit_message_reply_markup(req, outcome), outcome)

CallDeleteMessage ==
    \E outcome \in Outcomes(BoolReplies) :
        Call("delete_message", "DeleteMessageRequest",
             delete_message(req, outcome), outcome)

CallRemoveReplyKeyboard ==
    /\ pc = "idle"
    /\ \E c \in IdValues, t \in TextValues, outcome \in Outcomes(MessageReplies) :
         /\ kind' = "(i64, String)"
         /\ req' = [chat_id |-> c, text |-> t]
         /\ Return("remove_reply_keyboard", remove_reply_keyboard(c, t, outcome), outcome)

CallSendChatAction ==
    \E outcome \in Outcomes(BoolReplies) :
        Call("send_chat_action", "SendChatActionRequest",
             send_chat_action(req, outcome), outcome)

CallSetChatPermissions ==
    \E outcome \in Outcomes(BoolReplies) :
        Call("set_chat_permissions", "SetChatPermissionRequest",
             set_chat_permissions(req, outcome), outcome)

CallRestrictChatMember ==
    \E outcome \in Outcomes(BoolReplies) :
        Call("restrict_chat_member", "RestrictChatMemberRequest",
             restrict_chat_member(req, outcome), outcome)

CallGetChatAdministrators ==
    \E outcome \in Outcomes(AdminReplies) :
        Call("get_chat_administrators", "GetChatAdministratorsRequest",
             get_chat_administrators(req, outcome), outcome)

CallGetChat ==
    \E outcome \in Outcomes(ChatFullInfoReplies) :
        Call("get_chat", "GetChatRequest", get_chat(req, outcome), outcome)

CallUnbanChatMember ==
    \E outcome \in Outcomes(BoolReplies) :
        Call("unban_chat_member", "UnbanChatMemberRequest",
             unban_chat_member(req, outcome), outcome)

CallBanChatMember ==
    \E outcome \in Outcomes(BoolReplies) :
        Call("ban_chat_member", "BanChatMemberRequest",
             ban_chat_member(req, outcome), outcome)

\* the caller drops what it holds and starts over
Drop ==
    /\ pc \in {"decoded", "done", "panicked"}
    /\ pc' = "idle"
    /\ kind' = "none"
    /\ req' = None
    /\ wire' = NoJson
    /\ back' = None
    /\ op' = "none"
    /\ posts' = <<>>
    /\ reply' = None
    /\ result' = None
    /\ given' = NothingGiven
    /\ UNCHANGED <<api, calls>>

Next ==
    \/ NewSendMessageRequest
    \/ WithMessageThreadId
    \/ WithReplyMarkup
    \/ WithParseMode
    \/ SetReplyParameters
    \/ NewEditMessageTextRequest
    \/ NewEditMessageCaptionRequest
    \/ NewEditMessageReplyMarkupRequest
    \/ EditTextWithChatId
    \/ EditTextWithMessageId
    \/ EditCaptionWithChatId
    \/ EditMarkupWithChatId
    \/ EditMarkupWithMessageId
    \/ BaseWithChatId
    \/ BaseWithMessageId
    \/ BaseWithParseMode
    \/ BaseWithReplyMarkup
    \/ SetInlineMessageId
    \/ NewDeleteMessageRequest
    \/ NewSendChatActionRequest
    \/ SetMessageThreadId
    \/ NewSetChatPermissionRequest
    \/ NewRestrictChatMemberRequest
    \/ NewGetChatAdministratorsRequest
    \/ NewGetChatRequest
    \/ NewBanChatMemberRequest
    \/ NewUnbanChatMemberRequest
    \/ to_value
    \/ from_value
    \/ from_wire
    \/ CallSendMessage
    \/ CallEditMessageText
    \/ CallEditMessageCaption
    \/ CallEditMessageReplyMarkup
    \/ CallDeleteMessage
    \/ CallRemoveReplyKeyboard
    \/ CallSendChatAction
    \/ CallSetChatPermissions
    \/ CallRestrictChatMember
    \/ CallGetChatAdministrators
    \/ CallGetChat
    \/ CallUnbanChatMember
    \/ CallBanChatMember
    \/ Drop

Spec == Init /\ [][Next]_vars

(***************************************************************************)
(* Concurrent callers.  Every operation is an async fn taking &self and    *)
(* &Req: a call begins (the borrows are taken), other calls begin and      *)
(* return meanwhile, and the call returns when its own answer has come.    *)
(* Each of the callers 1..NumCallers makes one call.                       *)
(***************************************************************************)
\* impl API: the operation named o applied to r
Invoke(o, r, outcome) ==
    CASE o = "send_message" -> send_message(r, outcome)
      [] o = "edit_message_text" -> edit_message_text(r, outcome)
      [] o = "edit_message_caption" -> edit_message_caption(r, outcome)
      [] o = "edit_message_reply_markup" -> edit_message_reply_markup(r, outcome)
      [] o = "delete_message" -> delete_message(r, outcome)
      [] o = "remove_reply_keyboard" -> remove_reply_keyboard(r.chat_id, r.text, outcome)
      [] o = "send_chat_action" -> send_chat_action(r, outcome)
      [] o = "set_chat_permissions" -> set_chat_permissions(r, outcome)
      [] o = "restrict_chat_member" -> restrict_chat_member(r, outcome)
      [] o = "get_chat_administrators" -> get_chat_administrators(r, outcome)
      [] o = "get_chat" -> get_chat(r, outcome)
      [] o = "unban_chat_member" -> unban_chat_member(r, outcome)
      [] o = "ban_chat_member" -> ban_chat_member(r, outcome)

\* an operation that keeps the result of the call before in the API value
\* and answers with it
api_call_cached(self, o, r, outcome) ==
    LET c == Invoke(o, r, outcome)
    IN  [ self   |-> [client |-> self.client, last |-> c.result],
          req    |-> r,
          posted |-> c.posted,
          result |-> IF "last" \in DOMAIN self THEN self.last ELSE c.result ]

\* an operation called through &self on &r: both borrows are shared, so
\* the API value and the request come back as they went in
api_call(self, o, r, outcome) ==
    LET c == Invoke(o, r, outcome)
    IN  [self |-> self, req |-> r, posted |-> c.posted, result |-> c.result]

\* the requests the callers make
ConcCalls ==
    { [op |-> "send_message", req |-> SendMessageRequest_new(123456789, "Hello!")],
      [op |-> "send_message", req |-> SendMessageRequest_new(123456789, "Bye")],
      [op |-> "edit_message_text",
       req |-> EditMessageTextRequest_with_message_id(
                   EditMessageTextRequest_with_chat_id(
                       EditMessageTextRequest_new("Hello!"), 123456789), 1)],
      [op |-> "delete_message", req |-> DeleteMessageRequest_new(123456789, 1)],
      [op |-> "remove_reply_keyboard", req |-> [chat_id |-> 123456789, text |-> "Bye"]],
      [op |-> "get_chat", req |-> GetChatRequest_new("@channelusername")],
      [op |-> "get_chat_administrators",
       req |-> GetChatAdministratorsRequest_new("@channelusername")],
      [op |-> "unban_chat_member",
       req |-> UnbanChatMemberRequest_new("@channelusername", 1, None)] }

\* caller c begins a call on a request of its own
Begin(c) ==
    /\ calls[c].pc = "idle"
    /\ \E call \in ConcCalls :
         calls' = [calls EXCEPT ![c] =
                      [NoCall EXCEPT !.pc = "calling", !.op = call.op,
                                     !.req = call.req, !.arg = call.req]]
    /\ UNCHANGED <<api, pc, kind, req, wire, back, op, posts, reply, result, given>>

\* the transport answers caller c and its call returns
End(c) ==
    /\ calls[c].pc = "calling"
    /\ \E outcome \in Outcomes(
            CASE calls[c].op \in {"send_message", "edit_message_text",
                                  "remove_reply_keyboard"} ->
                    {JObj(MessageJsonMin), JObj(Without(MessageJsonMin, "date"))}
              [] calls[c].op \in {"delete_message", "unban_chat_member"} ->
                    {JBool(TRUE), JBool(FALSE)}
              [] calls[c].op = "get_chat" ->
                    {JObj(ChatFullInfoJsonMin), JObj(ChatFullInfoJsonFull)}
              [] calls[c].op = "get_chat_administrators" ->
                    {JArr(<<>>), JArr(<<JObj(AdminJsonMin)>>)}) :
         LET ret == api_call(api, calls[c].op, calls[c].req, outcome)
         IN  /\ api' = ret.self
             /\ calls' = [calls EXCEPT ![c] =
                              [@ EXCEPT !.pc = "returned", !.req = ret.req,
                                        !.posted = ret.posted, !.reply = outcome,
                                        !.result = ret.result]]
    /\ UNCHANGED <<pc, kind, req, wire, back, op, posts, reply, result, given>>

NextConc ==
    \/ \E c \in 1..NumCallers : Begin(c)
    \/ \E c \in 1..NumCallers : End(c)

SpecConc == Init /\ [][NextConc]_vars


(***************************************************************************)
(* Properties.                                                             *)
(***************************************************************************)
Has(o, k) == k \in DOMAIN o

\* the caller holds a request and its serialized form
Serialized(ty) == pc \in {"serialized", "decoded"} /\ req # None /\ kind = ty

\* C1: a request built by SendMessageRequest::new(chat_id, text) with no
\* further builder call serializes to an object whose key set is exactly
\* {chat_id, text}, chat_id being the number and text the string supplied.
C1_NewHasOnlyChatIdAndText ==
    (Serialized("SendMessageRequest") /\ req = SendMessageRequest_new(req.chat_id, req.text))
        => /\ wire.t = "obj"
           /\ DOMAIN wire.o = {"chat_id", "text"}
           /\ wire.o["chat_id"] = JNum(req.chat_id)
           /\ wire.o["text"] = JStr(req.text)

C2_OptionalFields(ty) == {i \in 1..Len(Schema(ty)) : Schema(ty)[i].opt}

\* C2: omission law: for every request type and every optional field of it
\* that is absent, the serialized object does not contain the field's key
\* (neither with the value null nor with any other value).
C2_OmissionLaw ==
    \A ty \in RequestTypes :
        Serialized(ty) =>
            /\ \A i \in C2_OptionalFields(ty) :
                   ~req[Schema(ty)[i].name].some => ~Has(wire.o, Schema(ty)[i].key)
            /\ ty \in EditTypes =>
                   \A i \in C2_OptionalFields("EditMessageBase") :
                       ~req.base[EditMessageBase[i].name].some
                           => ~Has(wire.o, EditMessageBase[i].key)

C3_BaseKeys == {"chat_id", "message_id", "inline_message_id", "parse_mode", "reply_markup"}

C3_WithBase(ty, b) ==
    CASE ty = "EditMessageTextRequest" -> [base |-> b, text |-> "Hello!"]
      [] ty = "EditMessageCaptionRequest" -> [base |-> b, caption |-> "Bye"]
      [] ty = "EditMessageReplyMarkupRequest" -> [base |-> b]

\* C3: a request that embeds EditMessageBase serializes to one flat object:
\* every present base field is a top-level sibling of the request's own
\* field, there is no key named base and no nested object, and the same
\* base gives the same shared keys and values in each of the three requests.
C3_BaseIsFlattened ==
    \A ty \in EditTypes :
        Serialized(ty) =>
            /\ wire.t = "obj"
            /\ ~Has(wire.o, "base")
            /\ \A k \in DOMAIN wire.o : wire.o[k].t # "obj"
            /\ req.base.chat_id.some
                   => Has(wire.o, "chat_id") /\ wire.o["chat_id"] = JNum(req.base.chat_id.v)
            /\ req.base.message_id.some
                   => Has(wire.o, "message_id")
                      /\ wire.o["message_id"] = JNum(req.base.message_id.v)
            /\ req.base.inline_message_id.some
                   => Has(wire.o, "inline_message_id")
                      /\ wire.o["inline_message_id"] = JStr(req.base.inline_message_id.v)
            /\ req.base.parse_mode.some
                   => Has(wire.o, "parse_mode") /\ wire.o["parse_mode"].t = "str"
            /\ req.base.reply_markup.some
                   => Has(wire.o, "reply_markup")
                      /\ wire.o["reply_markup"] = JStr(req.base.reply_markup.v)
            /\ ty = "EditMessageTextRequest"
                   => Has(wire.o, "text") /\ wire.o["text"] = JStr(req.text)
            /\ ty = "EditMessageCaptionRequest"
                   => Has(wire.o, "caption") /\ wire.o["caption"] = JStr(req.caption)
            /\ \A ty2 \in EditTypes :
                   LET other == ToJson(ty2, C3_WithBase(ty2, req.base)).o
                   IN  \A k \in C3_BaseKeys :
                           /\ Has(wire.o, k) <=> Has(other, k)
                           /\ Has(wire.o, k) => wire.o[k] = other[k]

C3_Witness ==
    /\ Serialized("EditMessageCaptionRequest")
    /\ req.base.chat_id.some
    /\ req.base.message_id.some
    /\ req.base.parse_mode.some
    /\ req.base.reply_markup.some
    /\ wire.o["chat_id"] = JNum(123456789)

\* the requests of chat.rs whose chat_id is documented as "unique identifier
\* ... or username ... (in the format @channelusername)"
C4_ChatRequests ==
    { "SetChatPermissionRequest", "RestrictChatMemberRequest",
      "GetChatAdministratorsRequest", "GetChatRequest", "BanChatMemberRequest",
      "UnbanChatMemberRequest" }

\* a document received and decoded as ty
Received(ty) == pc = "decoded" /\ req = None /\ kind = ty /\ wire.t = "obj"

\* the document is a serialized request of type ty, but for what stands at
\* chat_id
C4_OnlyChatIdVaries(ty, o) ==
    \E v \in SampleRequests(ty) :
        Without(o, "chat_id") = Without(ToJson(ty, v).o, "chat_id")

\* the same for the chat_id inside reply_parameters
C4_OnlyReplyChatIdVaries(o) ==
    /\ Has(o, "reply_parameters")
    /\ o["reply_parameters"].t = "obj"
    /\ Has(o["reply_parameters"].o, "chat_id")
    /\ \E v \in SampleRequests("SendMessageRequest") :
          LET w == ToJson("SendMessageRequest", v).o
          IN  /\ Has(w, "reply_parameters")
              /\ Without(o, "reply_parameters") = Without(w, "reply_parameters")
              /\ Without(o["reply_parameters"].o, "chat_id")
                     = Without(w["reply_parameters"].o, "chat_id")

\* C4: an identifier slot that takes a numeric id or an @username round-trips
\* the representation supplied: a JSON number or a JSON string at chat_id
\* decodes, and encodes again as the same JSON number or string; any other
\* JSON type at that position is a decoding error.
C4_IdentifierUnion ==
    /\ \A ty \in C4_ChatRequests :
          (Received(ty) /\ Has(wire.o, "chat_id") /\ C4_OnlyChatIdVaries(ty, wire.o)) =>
              IF wire.o["chat_id"].t \in {"num", "str"}
              THEN back.ok /\ ToJson(ty, back.v).o["chat_id"] = wire.o["chat_id"]
              ELSE ~back.ok
    /\ (Received("SendMessageRequest") /\ C4_OnlyReplyChatIdVaries(wire.o)) =>
            LET id == wire.o["reply_parameters"].o["chat_id"]
            IN  IF id.t \in {"num", "str"}
                THEN /\ back.ok
                     /\ ToJson("SendMessageRequest", back.v).o["reply_parameters"].o["chat_id"] = id
                ELSE id.t # "null" => ~back.ok

C5_Method(o) ==
    CASE o = "send_message" -> "sendMessage"
      [] o = "remove_reply_keyboard" -> "sendMessage"
      [] o = "edit_message_text" -> "editMessageText"
      [] o = "edit_message_caption" -> "editMessageCaption"
      [] o = "edit_message_reply_markup" -> "editMessageReplyMarkup"
      [] o = "delete_message" -> "deleteMessage"
      [] o = "send_chat_action" -> "sendChatAction"
      [] o = "set_chat_permissions" -> "setChatPermissions"
      [] o = "restrict_chat_member" -> "restrictChatMember"
      [] o = "ban_chat_member" -> "banChatMember"
      [] o = "unban_chat_member" -> "unbanChatMember"
      [] o = "get_chat_administrators" -> "getChatAdministrators"
      [] o = "get_chat" -> "getChat"

C5_Response(o) ==
    CASE o \in {"send_message", "remove_reply_keyboard", "edit_message_text",
                "edit_message_caption", "edit_message_reply_markup"} -> "Message"
      [] o \in {"delete_message", "send_chat_action", "set_chat_permissions",
                "restrict_chat_member", "ban_chat_member", "unban_chat_member"} -> "bool"
      [] o = "get_chat_administrators" -> "Vec<ChatMemberAdministrator>"
      [] o = "get_chat" -> "ChatFullInfo"

\* the one request type posted under a method name
C5_RequestOf(m) ==
    CASE m = "sendMessage" -> "SendMessageRequest"
      [] m = "editMessageText" -> "EditMessageTextRequest"
      [] m = "editMessageCaption" -> "EditMessageCaptionRequest"
      [] m = "editMessageReplyMarkup" -> "EditMessageReplyMarkupRequest"
      [] m = "deleteMessage" -> "DeleteMessageRequest"
      [] m = "sendChatAction" -> "SendChatActionRequest"
      [] m = "setChatPermissions" -> "SetChatPermissionRequest"
      [] m = "restrictChatMember" -> "RestrictChatMemberRequest"
      [] m = "banChatMember" -> "BanChatMemberRequest"
      [] m = "unbanChatMember" -> "UnbanChatMemberRequest"
      [] m = "getChatAdministrators" -> "GetChatAdministratorsRequest"
      [] m = "getChat" -> "GetChatRequest"
      [] OTHER -> "none"

\* C5: each API operation posts under the one method name fixed for its
\* request type and decodes the answer as the one response type fixed for
\* it, whatever the request holds; no two request types share a method name.
C5_FixedBinding ==
    pc = "done" =>
        /\ Len(posts) >= 1
        /\ \A i \in 1..Len(posts) :
              /\ posts[i].method = C5_Method(op)
              /\ op # "remove_reply_keyboard" => C5_RequestOf(posts[i].method) = kind
              /\ op # "remove_reply_keyboard" => posts[i].body = ToJson(kind, req)
        /\ result.ty = C5_Response(op)
        /\ reply.ok => result.val = FromJson(C5_Response(op), reply.body)

C5_Witness ==
    /\ pc = "done"
    /\ op = "ban_chat_member"
    /\ req.until_date.some
    /\ reply.ok
    /\ result.val.ok


C6_Required(ty) ==
    CASE ty = "Chat" -> {"id", "type"}
      [] ty = "ChatFullInfo" -> {"id", "type"}
      [] ty = "Message" -> {"message_id", "date", "chat"}
      [] ty = "ChatMemberAdministrator" -> {"status", "user"}

\* well-formed answers of the service
C6_WellFormed(ty) ==
    CASE ty = "Chat" -> {ChatJsonMin, ChatJsonFull}
      [] ty = "ChatFullInfo" -> {ChatFullInfoJsonMin, ChatFullInfoJsonFull}
      [] ty = "Message" -> {MessageJsonMin, MessageJsonFull}
      [] ty = "ChatMemberAdministrator" -> {AdminJsonMin, AdminJsonFull}

\* o is a well-formed answer with some keys left out
C6_PartOf(o, docs) ==
    \E d \in docs : \A k \in DOMAIN o : Has(d, k) /\ o[k] = d[k]

C6_Optional(ty) ==
    {i \in 1..Len(Schema(ty)) : Schema(ty)[i].opt /\ ~Schema(ty)[i].flat}

\* what decoding the document o as ty must give
C6_Decoded(ty, o, r) ==
    LET missing == C6_Required(ty) \ DOMAIN o
    IN  /\ (C6_PartOf(o, C6_WellFormed(ty)) /\ missing = {}) =>
              /\ r.ok
              /\ \A i \in C6_Optional(ty) :
                    ~Has(o, Schema(ty)[i].key) => r.v[Schema(ty)[i].name] = None
        /\ (C6_PartOf(o, C6_WellFormed(ty)) /\ missing # {}) =>
              /\ ~r.ok
              /\ r.kind = "missing_field"
              /\ r.what \in missing
        /\ (/\ ty = "Message"
            /\ Has(o, "chat")
            /\ C6_PartOf(Without(o, "chat"), C6_WellFormed(ty))
            /\ {"message_id", "date"} \subseteq DOMAIN o
            /\ o["chat"].t = "obj"
            /\ C6_PartOf(o["chat"].o, C6_WellFormed("Chat"))
            /\ C6_Required("Chat") \ DOMAIN o["chat"].o # {}) =>
              /\ ~r.ok
              /\ r.kind = "missing_field"
              /\ r.what \in C6_Required("Chat") \ DOMAIN o["chat"].o
        /\ (ty = "Message" /\ o = MessageJsonMin) =>
              /\ r.ok
              /\ r.v.message_id = 1
              /\ r.v.chat.id = 123456789
              /\ r.v.text = None

\* C6: decoding a response object in which an optional field's key is
\* missing succeeds with that field None (a Message decoded from
\* {message_id, date, chat: {id, type}} has message_id and chat.id as given
\* and text None); decoding one in which a required field's key is missing
\* is an error that names the missing field, never a value.
C6_MissingKeys ==
    /\ \A ty \in ResponseTypes : Received(ty) => C6_Decoded(ty, wire.o, back)
    /\ (pc = "done" /\ reply.ok /\ reply.body.t = "obj"
           /\ result.ty \in {"Message", "ChatFullInfo"})
          => C6_Decoded(result.ty, reply.body.o, result.val)

C6_Witness ==
    /\ Received("Message")
    /\ Has(wire.o, "chat")
    /\ wire.o["chat"] = JObj(Without(ChatJsonMin, "id"))
    /\ ~Has(wire.o, "text")
    /\ ~back.ok
    /\ back.what = "id"

C7_ChatActionToken(a) ==
    CASE a = "Typing" -> "typing"
      [] a = "UploadPhoto" -> "upload_photo"
      [] a = "RecordVideo" -> "record_video"
      [] a = "UploadVideo" -> "upload_video"
      [] a = "RecordAudio" -> "record_audio"
      [] a = "UploadAudio" -> "upload_audio"
      [] a = "UploadDocument" -> "upload_document"
      [] a = "FindLocation" -> "find_location"
      [] a = "RecordVideoNote" -> "record_video_note"
      [] a = "UploadVideoNote" -> "upload_video_note"

C7_ParseModeToken(m) ==
    CASE m = "MarkdownV2" -> "MarkdownV2"
      [] m = "Markdown" -> "Markdown"
      [] m = "HTML" -> "HTML"
      [] m = "Text" -> ""

\* the variant x of enum ty was written as the JSON value j
C7_Tagged(ty, x, j, token) ==
    /\ j = JStr(token)
    /\ \A y \in DOMAIN Tokens(ty) \ {x} : ToJson(ty, y) # j
    /\ FromJson(ty, j) = Ok(x)

\* C7: ChatAction and ParseMode serialize each variant to exactly its
\* declared, case-sensitive token (UploadVideoNote -> "upload_video_note"),
\* distinct variants have distinct tokens, and decoding a variant's token
\* gives back that variant.
C7_EnumTokens ==
    /\ Serialized("SendChatActionRequest") =>
          /\ C7_Tagged("ChatAction", req.action, wire.o["action"],
                       C7_ChatActionToken(req.action))
          /\ pc = "decoded" => back.ok /\ back.v.action = req.action
    /\ (Serialized("SendMessageRequest") /\ req.parse_mode.some) =>
          /\ C7_Tagged("ParseMode", req.parse_mode.v, wire.o["parse_mode"],
                       C7_ParseModeToken(req.parse_mode.v))
          /\ pc = "decoded" => back.ok /\ back.v.parse_mode = req.parse_mode
    /\ \A ty \in EditTypes :
          (Serialized(ty) /\ req.base.parse_mode.some) =>
              /\ C7_Tagged("ParseMode", req.base.parse_mode.v, wire.o["parse_mode"],
                           C7_ParseModeToken(req.base.parse_mode.v))
              /\ pc = "decoded" => back.ok /\ back.v.base.parse_mode = req.base.parse_mode

C7_Witness ==
    /\ Serialized("SendChatActionRequest")
    /\ pc = "decoded"
    /\ req.action = "UploadVideoNote"
    /\ wire.o["action"] = JStr("upload_video_note")
    /\ back.ok

C8_ChatActionTokens ==
    { "typing", "upload_photo", "record_video", "upload_video", "record_audio",
      "upload_audio", "upload_document", "find_location", "record_video_note",
      "upload_video_note" }

C8_ParseModeTokens == {"MarkdownV2", "Markdown", "HTML", ""}

C8_StatusTokens == {"administrator"}

C8_Unknown(o, k, tokens) == Has(o, k) /\ o[k].t = "str" /\ o[k].s \notin tokens

\* C8: for the chat-action kind, the parse mode and the administrator
\* status, decoding a string that is not one of the declared tokens (also
\* one that differs in letter case only) is a deserialization error.
C8_UnknownTokenIsError ==
    /\ (Received("SendChatActionRequest")
           /\ C8_Unknown(wire.o, "action", C8_ChatActionTokens)) => ~back.ok
    /\ \A ty \in {"SendMessageRequest"} \cup EditTypes :
          (Received(ty) /\ C8_Unknown(wire.o, "parse_mode", C8_ParseModeTokens))
              => ~back.ok
    /\ (Received("ChatMemberAdministrator")
           /\ C8_Unknown(wire.o, "status", C8_StatusTokens)) => ~back.ok
    /\ (pc = "done" /\ op = "get_chat_administrators" /\ reply.ok
           /\ reply.body.t = "arr"
           /\ \E i \in 1..Len(reply.body.a) :
                 C8_Unknown(reply.body.a[i].o, "status", C8_StatusTokens))
          => ~result.val.ok

\* C9: round-trip law: for every request type and every valid value v of
\* it, deserialize(serialize(v)) = v, with the required fields only and
\* with every optional field present.
C9_RoundTrip ==
    (pc = "decoded" /\ req # None) => back = Ok(req)

C9_Witness ==
    /\ pc = "decoded"
    /\ req # None
    /\ kind = "EditMessageTextRequest"
    /\ \A i \in 1..Len(EditMessageBase) : req.base[EditMessageBase[i].name].some
    /\ req.base.parse_mode.v = "Text"
    /\ back.ok

\* C10: when the transport's post fails, the API operation returns an error
\* that is the transport's error unchanged and carries the attempted method
\* name; it returns no success value and no other error.
C10_TransportErrorPropagates ==
    (pc = "done" /\ ~reply.ok) =>
        /\ ~result.val.ok
        /\ result.val.kind = "transport"
        /\ result.val.what = reply.error
        /\ result.val.method = posts[Len(posts)].method
        /\ result.val.method = C5_Method(op)

C10_Witness ==
    /\ pc = "done"
    /\ op = "send_message"
    /\ ~reply.ok
    /\ reply.error = "timeout"
    /\ ~result.val.ok


\* C11: every API operation, remove_reply_keyboard included, invokes the
\* transport's post exactly once per call, whether the post succeeds or
\* fails; a failed post is not followed by a second one.
C11_ExactlyOnePost ==
    /\ pc = "done" => Len(posts) = 1
    /\ pc # "done" => posts = <<>>

C11_Witness ==
    /\ pc = "done"
    /\ op = "remove_reply_keyboard"
    /\ ~reply.ok
    /\ Len(posts) = 1


\* C12: remove_reply_keyboard(chat_id, text) is send_message applied to
\* SendMessageRequest::new(chat_id, text).with_reply_markup(
\* ReplyMarkup::reply_keyboard_remove()): the same post and the same result.
\* The one post has method sendMessage, its body carries the caller's chat_id
\* and text unchanged, and apart from reply_markup the body is the body of a
\* plain send of the same text.
C12_Composed ==
    send_message(
        SendMessageRequest_with_reply_markup(
            SendMessageRequest_new(req.chat_id, req.text), "ReplyKeyboardRemove"),
        reply)

C12_PlainBody ==
    ToJson("SendMessageRequest", SendMessageRequest_new(req.chat_id, req.text))

C12_PureComposition ==
    (pc = "done" /\ op = "remove_reply_keyboard") =>
        /\ posts = C12_Composed.posted
        /\ result = C12_Composed.result
        /\ Len(posts) = 1
        /\ posts[1].method = "sendMessage"
        /\ posts[1].body.t = "obj"
        /\ posts[1].body.o["chat_id"] = JNum(req.chat_id)
        /\ posts[1].body.o["text"] = JStr(req.text)
        /\ posts[1].body.o["reply_markup"] = JObj([remove_keyboard |-> JBool(TRUE)])
        /\ "reply_markup" \notin DOMAIN C12_PlainBody.o
        /\ Without(posts[1].body.o, "reply_markup") = C12_PlainBody.o

C12_Witness ==
    /\ pc = "done"
    /\ op = "remove_reply_keyboard"
    /\ reply.ok
    /\ result.val.ok
    /\ posts[1].body.o["text"] = JStr("Hello!")
    /\ posts[1].body.o["chat_id"] = JNum(123456789)


\* C13: no partially-invalid request can be built: every EditMessageTextRequest,
\* EditMessageCaptionRequest and EditMessageReplyMarkupRequest obtained from
\* new(...) and any sequence of with_* calls has either both chat_id and
\* message_id present or inline_message_id present.
C13_Addressed(b) ==
    \/ b.chat_id.some /\ b.message_id.some
    \/ b.inline_message_id.some

C13_EditRequestsAddressed ==
    (pc \in {"built", "serialized", "done"} /\ kind \in EditTypes) =>
        C13_Addressed(req.base)


\* C15: no operation ends in a panic: every mapping failure, the failure to
\* serialize the reply markup inside EditMessageBase::with_reply_markup and
\* EditMessageReplyMarkupRequest::new included, reaches the caller as an
\* error result.
C15_NoPanic ==
    pc # "panicked"


\* C16: each with_* builder of SendMessageRequest, EditMessageBase,
\* EditMessageTextRequest, EditMessageCaptionRequest and
\* EditMessageReplyMarkupRequest sets exactly the field it names and leaves
\* the others as they were: after any sequence of builder calls on a value
\* from new(...) each field holds the argument of the last call to its
\* builder (as text for the reply markup of EditMessageBase), or the value
\* new(...) gave it if its builder was never called, and two builders of
\* different fields give the same value in either order.
C16_Types == {"SendMessageRequest"} \cup EditTypes

C16_Field(r, f) == IF f \in DOMAIN r THEN r[f] ELSE r.base[f]

C16_Fields(r) ==
    IF "base" \in DOMAIN r THEN (DOMAIN r \ {"base"}) \cup DOMAIN r.base
    ELSE DOMAIN r

C16_Stored(ty, f, arg) ==
    IF ty \in EditTypes /\ f = "reply_markup" THEN Some(ReplyMarkupText[arg])
    ELSE Some(arg)

C16_Builders(ty) ==
    CASE ty = "SendMessageRequest" -> {"message_thread_id", "reply_markup", "parse_mode"}
      [] ty = "EditMessageTextRequest" ->
            {"chat_id", "message_id", "parse_mode", "reply_markup"}
      [] ty = "EditMessageCaptionRequest" ->
            {"chat_id", "message_id", "parse_mode", "reply_markup"}
      [] ty = "EditMessageReplyMarkupRequest" ->
            {"chat_id", "message_id", "parse_mode", "reply_markup"}

C16_Args(f) ==
    CASE f \in {"chat_id", "message_id", "message_thread_id"} -> IdValues
      [] f = "parse_mode" -> DOMAIN ParseMode
      [] f = "reply_markup" -> DOMAIN ReplyMarkup

\* the builder of field f of a request of type ty, applied to r
C16_With(ty, f, r, arg) ==
    CASE ty = "SendMessageRequest" /\ f = "message_thread_id" ->
            SendMessageRequest_with_message_thread_id(r, arg)
      [] ty = "SendMessageRequest" /\ f = "reply_markup" ->
            SendMessageRequest_with_reply_markup(r, arg)
      [] ty = "SendMessageRequest" /\ f = "parse_mode" ->
            SendMessageRequest_with_parse_mode(r, arg)
      [] ty = "EditMessageTextRequest" /\ f = "chat_id" ->
            EditMessageTextRequest_with_chat_id(r, arg)
      [] ty = "EditMessageTextRequest" /\ f = "message_id" ->
            EditMessageTextRequest_with_message_id(r, arg)
      [] ty = "EditMessageCaptionRequest" /\ f = "chat_id" ->
            EditMessageCaptionRequest_with_chat_id(r, arg)
      [] ty = "EditMessageReplyMarkupRequest" /\ f = "chat_id" ->
            EditMessageReplyMarkupRequest_with_chat_id(r, arg)
      [] ty = "EditMessageReplyMarkupRequest" /\ f = "message_id" ->
            EditMessageReplyMarkupRequest_with_message_id(r, arg)
      [] ty \in EditTypes /\ f = "chat_id" ->
            [r EXCEPT !.base = EditMessageBase_with_chat_id(@, arg)]
      [] ty \in EditTypes /\ f = "message_id" ->
            [r EXCEPT !.base = EditMessageBase_with_message_id(@, arg)]
      [] ty \in EditTypes /\ f = "parse_mode" ->
            [r EXCEPT !.base = EditMessageBase_with_parse_mode(@, arg)]
      [] ty \in EditTypes /\ f = "reply_markup" ->
            [r EXCEPT !.base = EditMessageBase_with_reply_markup(@, arg, FALSE)]

C16_LastCallWins ==
    \A f \in C16_Fields(req) :
        C16_Field(req, f) =
            IF f \in DOMAIN given.last /\ given.last[f].some
            THEN C16_Stored(kind, f, given.last[f].v)
            ELSE C16_Field(given.new, f)

C16_OnlyItsField ==
    \A f \in C16_Builders(kind) : \A a \in C16_Args(f) :
        LET r == C16_With(kind, f, req, a)
        IN  /\ C16_Field(r, f) = C16_Stored(kind, f, a)
            /\ C16_Fields(r) = C16_Fields(req)
            /\ \A g \in C16_Fields(req) \ {f} : C16_Field(r, g) = C16_Field(req, g)

C16_Commute ==
    \A f \in C16_Builders(kind) : \A g \in C16_Builders(kind) \ {f} :
        \A a \in C16_Args(f) : \A b \in C16_Args(g) :
            C16_With(kind, g, C16_With(kind, f, req, a), b)
                = C16_With(kind, f, C16_With(kind, g, req, b), a)

C16_BuildersSetOneField ==
    /\ (pc \in {"built", "serialized", "done"} /\ kind \in C16_Types) =>
            C16_LastCallWins
    /\ (pc = "built" /\ kind \in C16_Types) =>
            C16_OnlyItsField /\ C16_Commute

C16_Witness ==
    /\ pc = "built"
    /\ kind = "EditMessageTextRequest"
    /\ given.last["chat_id"] = Some(1)
    /\ given.last["message_id"] = Some(123456789)
    /\ given.last["reply_markup"] = Some("InlineKeyboardMarkup")
    /\ req.base.chat_id = Some(1)
    /\ req.base.message_id = Some(123456789)
    /\ req.base.parse_mode = None
    /\ req.text = "Bye"


\* C14: under any interleaving of concurrent calls on independent requests
\* every request is left as it was when its call began, the API value is
\* never written, and what a call posts and returns is what the same
\* operation gives for its own request and its own answer alone, whatever
\* the other callers did; two calls with the same request content each get
\* the result of their own answer.
C14_Own(c) == Invoke(calls[c].op, calls[c].arg, calls[c].reply)

====
